---- MODULE Spec2Model ----
(***************************************************************************)
(* A model of the build steps of packer-plugin-utm                         *)
(* (builder/utm/common): StepConfigureQemuArgs, StepDownloadGuestAdditions *)
(* and StepAttachISOs, driven by the multistep runner over a shared state  *)
(* bag and a scripted driver.                                              *)
(*                                                                         *)
(* A Go string is a sequence of symbols.  Where the code looks inside a    *)
(* string (the UUID pattern, the path prefix, the join separator) the      *)
(* symbols are single characters; a fixed literal the code only passes on  *)
(* is a one-symbol string.                                                 *)
(***************************************************************************)
EXTENDS Integers, Sequences, FiniteSets, TLC

VARIABLES
    steps,          \* the ordered pipeline handed to the runner
    phase,          \* runner: "forward", "unwind" or "done"; "again" after a further Cleanup
    pos,            \* runner: index of the next step to Run
    upos,           \* runner: index in ran of the next step to Cleanup
    ran,            \* steps whose Run was invoked, in order
    cleaned,        \* steps whose Cleanup was invoked, in order
    active,         \* the call in progress: [step, op]
    result,         \* the StepAction the last Run returned
    state,          \* multistep.StateBag: key -> value, for the keys present
    putLog,         \* keys written by state.Put, in order
    osaLog,         \* driver.ExecuteOsaScript calls: [cmd, out, err], in order
    versionLog,     \* driver.Version calls: [out, err], in order
    toolsPathLog,   \* driver.GuestToolsIsoPath calls: [out, err], in order
    fetchLog,       \* commonsteps.StepDownload runs: [Url, Checksum], in order
    stepQemu,       \* the StepConfigureQemuArgs instance
    stepDownload,   \* the StepDownloadGuestAdditions instance
    stepAttach,     \* the StepAttachISOs instance
    disksToMount,   \* StepAttachISOs.Run: the local candidate slice
    loopIdx,        \* StepAttachISOs.Run: 0 before the loop, else the candidate index
    cancelled,      \* the build's context has been cancelled
    qemuConfig,     \* the QemuConfig instance
    prepareErrs     \* what QemuConfig.Prepare returned: "none" before the call

runnerVars == <<steps, phase, pos, upos, ran, cleaned>>
driverVars == <<osaLog, versionLog, toolsPathLog, fetchLog>>
stepVars   == <<stepQemu, stepDownload, stepAttach, disksToMount, loopIdx>>
buildVars  == <<cancelled, qemuConfig, prepareErrs>>
vars == <<steps, phase, pos, upos, ran, cleaned, active, result, state, putLog,
          osaLog, versionLog, toolsPathLog, fetchLog,
          stepQemu, stepDownload, stepAttach, disksToMount, loopIdx,
          cancelled, qemuConfig, prepareErrs>>

(***************************************************************************)
(* Bounds of the model.                                                    *)
(***************************************************************************)
MaxGroups == 2    \* most argument groups in a qemuargs list
MaxSteps == 3     \* most steps in a pipeline

(***************************************************************************)
(* Strings and small helpers.                                              *)
(***************************************************************************)
RECURSIVE Rep(_, _)
Rep(c, n) == IF n = 0 THEN <<>> ELSE <<c>> \o Rep(c, n - 1)

Range(s) == {s[i] : i \in 1..Len(s)}

SeqsUpTo(S, n) == UNION {[1..k -> S] : k \in 0..n}

\* the sequences over S, of any length up to n, with no element twice
DistinctSeqs(S, n) == {s \in SeqsUpTo(S, n) : \A i, j \in 1..Len(s) : i # j => s[i] # s[j]}

Min(S) == CHOOSE x \in S : \A y \in S : x <= y

Perms(S) == {s \in [1..Cardinality(S) -> S] : Range(s) = S}

ActionContinue == "continue"
ActionHalt == "halt"
NoAction == "none"

(***************************************************************************)
(* multistep.StateBag                                                      *)
(***************************************************************************)
GetOk(st, k) == k \in DOMAIN st

Put(st, k, v) == [x \in (DOMAIN st) \cup {k} |-> IF x = k THEN v ELSE st[x]]

VmId == <<"test-vm-id">>

None == [step |-> "none", op |-> "none"]
Call(s, o) == [step |-> s, op |-> o]

\* an error value: the code's fmt.Errorf message, without the wrapped cause
Err(msg) == [error |-> msg]

\* one driver.ExecuteOsaScript call and what it returned
OsaCall(cmd, out, err) == [cmd |-> cmd, out |-> out, err |-> err]

\* Join with the separator left out
RECURSIVE JoinNoSep(_, _)
JoinNoSep(elems, sep) ==
    IF Len(elems) = 0 THEN <<>> ELSE elems[1] \o JoinNoSep(Tail(elems), sep)

(***************************************************************************)
(* strings.Join                                                            *)
(***************************************************************************)
RECURSIVE Join(_, _)
Join(elems, sep) ==
    IF Len(elems) = 0 THEN <<>>
    ELSE IF Len(elems) = 1 THEN elems[1]
    ELSE elems[1] \o sep \o Join(Tail(elems), sep)

Space == <<" ">>

(***************************************************************************)
(* StepConfigureQemuArgs                                                   *)
(***************************************************************************)
\* a Go slice: nil, or its elements
NilSlice == [isNil |-> TRUE, elems |-> <<>>]
Slice(elems) == [isNil |-> FALSE, elems |-> elems]
GoLen(sl) == Len(sl.elems)

AddQemuArgsScript == <<"add_qemu_additional_args.applescript">>
ArgsFlag == <<"--args">>

\* lines 39-42: each inner []string joined into one argument string
QemuArgStrings(qemuArgs) == [i \in 1..Len(qemuArgs) |-> Join(qemuArgs[i], Space)]

\* lines 49-53
AddQemuArgsCommand(vmId, qemuArgStrings) ==
    <<AddQemuArgsScript, vmId, ArgsFlag>> \o qemuArgStrings

\* the test for nothing to configure written as a comparison with nil
NoQemuArgsNilOnly(s) == s.QemuArgs.isNil

\* line 29: nothing to configure
NoQemuArgs(s) == GoLen(s.QemuArgs) = 0

\* the arguments published before the driver's error is looked at
QemuArgsFinishPublishFirst(err, qemuArgStrings) ==
    IF err
    THEN /\ state' = Put(Put(state, "userQemuArgs", qemuArgStrings), "error",
                         Err("error adding user QEMU additional arguments"))
         /\ putLog' = putLog \o <<"userQemuArgs", "error">>
         /\ result' = ActionHalt
    ELSE /\ state' = Put(state, "userQemuArgs", qemuArgStrings)
         /\ putLog' = Append(putLog, "userQemuArgs")
         /\ result' = ActionContinue

\* lines 56-67: after the driver call
QemuArgsFinish(err, qemuArgStrings) ==
    IF err
    THEN /\ state' = Put(state, "error", Err("error adding user QEMU additional arguments"))
         /\ putLog' = Append(putLog, "error")
         /\ result' = ActionHalt
    ELSE /\ state' = Put(state, "userQemuArgs", qemuArgStrings)
         /\ putLog' = Append(putLog, "userQemuArgs")
         /\ result' = ActionContinue

QemuArgsRun ==
    /\ active = Call("qemu", "Run")
    /\ IF NoQemuArgs(stepQemu)
       THEN /\ result' = ActionContinue
            /\ UNCHANGED <<state, putLog, osaLog>>
       ELSE \E err \in BOOLEAN :
              LET qemuArgStrings == QemuArgStrings(stepQemu.QemuArgs.elems)
                  cmd == AddQemuArgsCommand(state["vmId"], qemuArgStrings)
              IN  /\ osaLog' = Append(osaLog, OsaCall(cmd, <<>>, err))
                  /\ QemuArgsFinish(err, qemuArgStrings)
    /\ active' = None
    /\ UNCHANGED <<runnerVars, buildVars, versionLog, toolsPathLog, fetchLog, stepVars>>

\* a Cleanup that replaces the injected arguments by none
QemuArgsCleanupClears ==
    /\ active = Call("qemu", "Cleanup")
    /\ active' = None
    /\ osaLog' = Append(osaLog,
                        OsaCall(AddQemuArgsCommand(state["vmId"], <<>>), <<>>, FALSE))
    /\ UNCHANGED <<runnerVars, buildVars, result, state, putLog, versionLog, toolsPathLog,
                   fetchLog, stepVars>>

\* line 70-72: nothing to undo
QemuArgsCleanup ==
    /\ active = Call("qemu", "Cleanup")
    /\ active' = None
    /\ UNCHANGED <<runnerVars, buildVars, result, state, putLog, driverVars, stepVars>>

(***************************************************************************)
(* QemuConfig.Prepare                                                      *)
(***************************************************************************)
\* the white space strings.TrimSpace removes, among the characters of the model
WhiteSpace == {" ", "\t", "\n", "\r"}

RECURSIVE TrimLeft(_)
TrimLeft(s) ==
    IF Len(s) > 0 /\ s[1] \in WhiteSpace THEN TrimLeft(Tail(s)) ELSE s

RECURSIVE TrimRight(_)
TrimRight(s) ==
    IF Len(s) > 0 /\ s[Len(s)] \in WhiteSpace
    THEN TrimRight(SubSeq(s, 1, Len(s) - 1)) ELSE s

TrimSpace(s) == TrimRight(TrimLeft(s))

\* the two messages of Prepare, for the group at Go index i
ErrEmptyList(i) == [error |-> "empty argument list", index |-> i]
ErrEmptyString(i) == [error |-> "argument resolves to empty string", index |-> i]

\* the loop body without its continue: the joined test also runs on an empty group
GroupErrorsNoContinue(i, args) ==
    (IF Len(args) = 0 THEN <<ErrEmptyList(i)>> ELSE <<>>)
    \o (IF TrimSpace(Join(args, Space)) = <<>> THEN <<ErrEmptyString(i)>> ELSE <<>>)

\* one iteration of the loop: the errors it appends for the group at Go index i
GroupErrors(i, args) ==
    IF Len(args) = 0 THEN <<ErrEmptyList(i)>>
    ELSE IF TrimSpace(Join(args, Space)) = <<>> THEN <<ErrEmptyString(i)>>
    ELSE <<>>

\* the loop over c.QemuArgs from the group at position n on
RECURSIVE PrepareFrom(_, _)
PrepareFrom(qemuArgs, n) ==
    IF n > Len(qemuArgs) THEN <<>>
    ELSE GroupErrors(n - 1, qemuArgs[n]) \o PrepareFrom(qemuArgs, n + 1)

QemuConfigPrepare(c) == PrepareFrom(c.QemuArgs.elems, 1)

NotPrepared == [called |-> FALSE, errs |-> <<>>]

Prepare ==
    /\ ~prepareErrs.called
    /\ prepareErrs' = [called |-> TRUE, errs |-> QemuConfigPrepare(qemuConfig)]
    /\ UNCHANGED <<runnerVars, active, result, state, putLog, driverVars, stepVars,
                   cancelled, qemuConfig>>

(***************************************************************************)
(* StepDownloadGuestAdditions                                              *)
(***************************************************************************)
GuestAdditionsModeDisable == "disabled"
GuestAdditionsModeAttach == "attach"
GuestAdditionsModeUpload == "upload"

V464 == <<"4.6.4">>
V02292 == <<"0.229.2">>
V450 == <<"4.5.0">>

\* UTM version to guest additions version map (lines 18-20)
additionsVersionMap == [v \in {V464} |-> V02292]

\* the reported version used as it is
RemapVersionNone(version) == version

\* lines 57-60: the version after the rewrite
RemapVersion(version) ==
    IF version \in DOMAIN additionsVersionMap THEN additionsVersionMap[version]
    ELSE version

\* A template is a sequence of parts: a literal symbol, the action that prints
\* the Version field, or an action naming a field the data does not have.
VersionAction == "{{ .Version }}"
BadAction == "{{ .Missing }}"

RenderFails(tpl) == \E i \in 1..Len(tpl) : tpl[i] = BadAction

\* interpolate.Render on a template that renders (line 75)
RECURSIVE Render(_, _)
Render(tpl, data) ==
    IF Len(tpl) = 0 THEN <<>>
    ELSE (IF Head(tpl) = VersionAction THEN data.Version ELSE <<Head(tpl)>>)
         \o Render(Tail(tpl), data)

\* line 62 and lines 92-93
AdditionsName == <<"utm-guest-tools-", "latest", ".iso">>
DefaultAdditionsUrl == <<"https://getutm.app/downloads/">> \o AdditionsName

\* lines 65-67, 84-95, 107-116: the checksum type and checksum for the download;
\* fromDriver says the URL is the driver's GuestToolsIsoPath
ChecksumType(fromDriver, sha256) ==
    IF fromDriver THEN "none"
    ELSE IF sha256 # <<>> THEN "sha256" ELSE "none"

\* the operator's checksum kept whatever the origin of the URL
ChecksumValueAlways(fromDriver, sha256) == sha256

ChecksumValue(fromDriver, sha256) ==
    IF ~fromDriver /\ sha256 # <<>> THEN sha256 ELSE <<>>

\* lines 121-124
ChecksumWithType(checksumType, checksum) ==
    IF checksumType # "none" /\ checksum # <<>>
    THEN <<checksumType, ":">> \o checksum
    ELSE checksum

\* lines 127-136: the download is handed to commonsteps.StepDownload, which
\* publishes the result path on success and an error on failure
FetchRun(url, checksum, ok) ==
    /\ fetchLog' = Append(fetchLog, [Url |-> <<url>>, Checksum |-> checksum])
    /\ IF ok
       THEN /\ state' = Put(state, "guest_additions_path", <<"/", "cache", "/", "tools.iso">>)
            /\ putLog' = Append(putLog, "guest_additions_path")
            /\ result' = ActionContinue
       ELSE /\ state' = Put(state, "error", Err("download failed"))
            /\ putLog' = Append(putLog, "error")
            /\ result' = ActionHalt

\* lines 99-100: the message tells the operator to give the URL
ErrNoUrl == "could not detect guest additions URL. Please specify guest_additions_url manually"

\* a halt that leaves no error in the state bag
HaltWithNoError(msg) ==
    /\ result' = ActionHalt
    /\ UNCHANGED <<state, putLog>>

\* state.Put("error", err) and return multistep.ActionHalt
HaltWith(msg) ==
    /\ state' = Put(state, "error", Err(msg))
    /\ putLog' = Append(putLog, "error")
    /\ result' = ActionHalt

\* what driver.Version and driver.GuestToolsIsoPath may return
VersionOutcomes ==
    {[out |-> v, err |-> FALSE] : v \in {V464, V450, <<>>}} \cup {[out |-> <<>>, err |-> TRUE]}

ToolsPathOutcomes ==
    {[out |-> p, err |-> FALSE] : p \in {<<"/", "Applications", "/", "tools.iso">>, <<>>}}
        \cup {[out |-> <<>>, err |-> TRUE]}

\* the resolution without the test of lines 98-104 for a URL still empty
DownloadResolveNoEmptyCheck(url0) ==
    IF url0 = <<>>
    THEN \E tp \in ToolsPathOutcomes :
           LET url == IF tp.err THEN DefaultAdditionsUrl ELSE tp.out
               fromDriver == ~tp.err
               sha == stepDownload.GuestAdditionsSHA256
           IN  /\ toolsPathLog' = Append(toolsPathLog, tp)
               /\ \E ok \in BOOLEAN :
                     FetchRun(url, ChecksumWithType(ChecksumType(fromDriver, sha),
                                                    ChecksumValue(fromDriver, sha)), ok)
    ELSE /\ UNCHANGED toolsPathLog
         /\ \E ok \in BOOLEAN :
              LET sha == stepDownload.GuestAdditionsSHA256
              IN  FetchRun(url0, ChecksumWithType(ChecksumType(FALSE, sha),
                                                  ChecksumValue(FALSE, sha)), ok)

\* lines 83-136: from the rendered url on
DownloadResolve(url0) ==
    IF url0 = <<>>
    THEN \E tp \in ToolsPathOutcomes :
           LET url == IF tp.err THEN DefaultAdditionsUrl ELSE tp.out
               fromDriver == ~tp.err
               sha == stepDownload.GuestAdditionsSHA256
           IN  /\ toolsPathLog' = Append(toolsPathLog, tp)
               /\ IF url = <<>>
                  THEN /\ HaltWith(ErrNoUrl)
                       /\ UNCHANGED fetchLog
                  ELSE \E ok \in BOOLEAN :
                         FetchRun(url, ChecksumWithType(ChecksumType(fromDriver, sha),
                                                        ChecksumValue(fromDriver, sha)), ok)
    ELSE /\ UNCHANGED toolsPathLog
         /\ \E ok \in BOOLEAN :
              LET sha == stepDownload.GuestAdditionsSHA256
              IN  FetchRun(url0, ChecksumWithType(ChecksumType(FALSE, sha),
                                                  ChecksumValue(FALSE, sha)), ok)

\* the mode compared with the wrong constant
DownloadDisabledUpload(s) == s.GuestAdditionsMode = GuestAdditionsModeUpload

\* line 45
DownloadDisabled(s) == s.GuestAdditionsMode = GuestAdditionsModeDisable

DownloadRun ==
    /\ active = Call("download", "Run")
    /\ IF DownloadDisabled(stepDownload)
       THEN /\ result' = ActionContinue
            /\ UNCHANGED <<state, putLog, versionLog, toolsPathLog, fetchLog, stepDownload>>
       ELSE \E ver \in VersionOutcomes :
              /\ versionLog' = Append(versionLog, ver)
              /\ IF ver.err
                 THEN /\ HaltWith("error reading version for guest additions download")
                      /\ UNCHANGED <<toolsPathLog, fetchLog, stepDownload>>
                 ELSE LET data == [Version |-> RemapVersion(ver.out)]
                      IN  /\ stepDownload' = [stepDownload EXCEPT !.CtxData = data]
                          /\ IF RenderFails(stepDownload.GuestAdditionsURL)
                             THEN /\ HaltWith("error preparing guest additions url")
                                  /\ UNCHANGED <<toolsPathLog, fetchLog>>
                             ELSE DownloadResolve(Render(stepDownload.GuestAdditionsURL, data))
    /\ active' = None
    /\ UNCHANGED <<runnerVars, buildVars, osaLog, stepQemu, stepAttach, disksToMount, loopIdx>>

DownloadCleanup ==
    /\ active = Call("download", "Cleanup")
    /\ active' = None
    /\ UNCHANGED <<runnerVars, buildVars, result, state, putLog, driverVars, stepVars>>

(***************************************************************************)
(* StepAttachISOs                                                          *)
(***************************************************************************)
\* filepath.IsAbs, filepath.Abs (the working directory joined in front)
IsAbs(p) == Len(p) > 0 /\ p[1] = "/"
Cwd == <<"/", "work">>
Abs(p) == Cwd \o <<"/">> \o p

\* the symbolic links of the file system, and filepath.EvalSymlinks
LinkIso == <<"/", "iso", "/", "link.iso">>
RealIso == <<"/", "store", "/", "boot.iso">>
Symlinks == [p \in {LinkIso} |-> RealIso]
EvalSymlinks(p) == IF p \in DOMAIN Symlinks THEN Symlinks[p] ELSE p

\* GetControllerEnumCode: the interface names the driver knows and their codes
ControllerEnumMap ==
    [n \in {<<"ide">>, <<"usb">>, <<"virtio">>} |->
        IF n = <<"ide">> THEN <<"QdIi">> ELSE IF n = <<"usb">> THEN <<"QdIu">> ELSE <<"QdIv">>]

AttachIsoScript == <<"attach_iso.applescript">>
RemoveDriveScript == <<"remove_drive.applescript">>

\* Sources with the supplemental-files image looked at before the boot image
SourcesCdFirst(s, st) ==
    (IF GetOk(st, "cd_path")
        THEN << [category |-> "cd_files", key |-> "cd_path"] >> ELSE <<>>)
    \o (IF s.AttachBootISO
        THEN << [category |-> "boot_iso", key |-> "iso_path"] >> ELSE <<>>)
    \o (IF s.GuestAdditionsMode = GuestAdditionsModeAttach
        THEN << [category |-> "guest_additions", key |-> "guest_additions_path"] >>
        ELSE <<>>)

\* Sources with the guest additions attached in every mode but disabled
SourcesUploadToo(s, st) ==
    (IF s.AttachBootISO
        THEN << [category |-> "boot_iso", key |-> "iso_path"] >> ELSE <<>>)
    \o (IF GetOk(st, "cd_path")
        THEN << [category |-> "cd_files", key |-> "cd_path"] >> ELSE <<>>)
    \o (IF s.GuestAdditionsMode # GuestAdditionsModeDisable
        THEN << [category |-> "guest_additions", key |-> "guest_additions_path"] >>
        ELSE <<>>)

\* lines 50, 71, 92: the media that apply, in the order the code looks at them,
\* each with the state key that holds its path
Sources(s, st) ==
    (IF s.AttachBootISO
        THEN << [category |-> "boot_iso", key |-> "iso_path"] >> ELSE <<>>)
    \o (IF GetOk(st, "cd_path")
        THEN << [category |-> "cd_files", key |-> "cd_path"] >> ELSE <<>>)
    \o (IF s.GuestAdditionsMode = GuestAdditionsModeAttach
        THEN << [category |-> "guest_additions", key |-> "guest_additions_path"] >>
        ELSE <<>>)

\* lines 139-149
ControllerName(s, diskCategory) ==
    CASE diskCategory = "boot_iso" -> s.ISOInterface
      [] diskCategory = "guest_additions" -> s.GuestAdditionsInterface
      [] diskCategory = "cd_files" -> <<"usb">>

\* lines 159-163
AttachCommand(vmId, controllerEnumCode, isoPath) ==
    <<AttachIsoScript, vmId, <<"--interface">>, controllerEnumCode, <<"--source">>, isoPath>>

\* the pattern one character short
UuidPatternLenShort == 36 - 1

\* line 177: the pattern [0-9a-fA-F-]{36}
UuidPatternLen == 36
HexDash == {"0", "1", "2", "3", "4", "5", "6", "7", "8", "9",
            "a", "b", "c", "d", "e", "f", "A", "B", "C", "D", "E", "F", "-"}

MatchesAt(output, i) ==
    /\ i + UuidPatternLen - 1 <= Len(output)
    /\ \A j \in i..(i + UuidPatternLen - 1) : output[j] \in HexDash

\* line 178-179: whether the pattern matches somewhere
HasMatch(output) == \E i \in 1..Len(output) : MatchesAt(output, i)

\* line 180: the leftmost match
FirstMatch(output) ==
    LET i == CHOOSE k \in 1..Len(output) :
                 MatchesAt(output, k) /\ \A m \in 1..(k - 1) : ~MatchesAt(output, m)
    IN  SubSeq(output, i, i + UuidPatternLen - 1)

\* lines 181-183
UnmountCommand(vmId, uuid) == <<RemoveDriveScript, vmId, uuid>>

\* an assignment to the map that records nothing
MapPutNothing(m, k, v) == m

EmptyMap == [c \in {} |-> <<>>]
MapPut(m, k, v) == [x \in (DOMAIN m) \cup {k} |-> IF x = k THEN v ELSE m[x]]

\* The identifier the driver gives the k-th drive it creates, and what the
\* attach script may print
DriveDigit(k) == CASE k = 1 -> "a" [] k = 2 -> "B" [] k = 3 -> "7" [] OTHER -> "0"
DriveUuid(k) ==
    Rep(DriveDigit(k), 8) \o <<"-">> \o Rep("1", 4) \o <<"-">> \o Rep("4", 4)
        \o <<"-">> \o Rep("9", 4) \o <<"-">> \o Rep(DriveDigit(k), 12)

AttachOutcomes(k) ==
    { [out |-> <<>>, err |-> TRUE],
      [out |-> <<"i", "d", " ">> \o DriveUuid(k) \o <<"\n">>, err |-> FALSE],
      [out |-> <<"o", "k">>, err |-> FALSE],
      [out |-> SubSeq(DriveUuid(k), 1, Len(DriveUuid(k)) - 1), err |-> FALSE] }

\* lines 56, 77, 101
ConvertError(key) ==
    CASE key = "iso_path" -> "error converting iso_path to absolute path"
      [] key = "cd_path" -> "error converting cd_path to absolute path"
      [] key = "guest_additions_path" -> "error converting guest_additions_path to absolute path"

AttachReturn(action) ==
    /\ result' = action
    /\ active' = None
    /\ disksToMount' = <<>>
    /\ loopIdx' = 0

\* lines 39-120: build the candidate list
AttachBegin ==
    /\ active = Call("attach", "Run")
    /\ loopIdx = 0
    /\ stepAttach' = [stepAttach EXCEPT !.diskUnmountCommands = EmptyMap]
    /\ \E wdOk \in BOOLEAN :
         LET src == Sources(stepAttach, state)
             bad == {i \in 1..Len(src) : ~IsAbs(state[src[i].key]) /\ ~wdOk}
             disks == [i \in 1..Len(src) |->
                         [category |-> src[i].category,
                          isoPath |-> IF IsAbs(state[src[i].key]) THEN state[src[i].key]
                                      ELSE Abs(state[src[i].key])]]
         IN  IF bad # {}
             THEN /\ HaltWith("error converting path to absolute path")
                  /\ active' = None
                  /\ UNCHANGED <<disksToMount, loopIdx>>
             ELSE IF Len(disks) = 0
             THEN /\ AttachReturn(ActionContinue)
                  /\ UNCHANGED <<state, putLog>>
             ELSE /\ disksToMount' = disks
                  /\ loopIdx' = 1
                  /\ UNCHANGED <<active, result, state, putLog>>
    /\ UNCHANGED <<runnerVars, buildVars, driverVars, stepQemu, stepDownload>>

\* lines 124-194: one pass of the loop; after the last candidate, publish and return
AttachOne ==
    /\ active = Call("attach", "Run")
    /\ loopIdx >= 1
    /\ LET disk == disksToMount[loopIdx]
           controllerName == ControllerName(stepAttach, disk.category)
       IN  \E symOk \in BOOLEAN :
             IF ~symOk
             THEN /\ HaltWith("error resolving symlink for ISO")
                  /\ AttachReturn(ActionHalt)
                  /\ UNCHANGED <<osaLog, stepAttach>>
             ELSE IF controllerName \notin DOMAIN ControllerEnumMap
             THEN /\ HaltWith("unknown controller")
                  /\ AttachReturn(ActionHalt)
                  /\ UNCHANGED <<osaLog, stepAttach>>
             ELSE \E r \in AttachOutcomes(loopIdx) :
                    LET command == AttachCommand(state["vmId"],
                                       ControllerEnumMap[controllerName],
                                       EvalSymlinks(disk.isoPath))
                        cmds == MapPut(stepAttach.diskUnmountCommands, disk.category,
                                       UnmountCommand(state["vmId"], FirstMatch(r.out)))
                    IN  /\ osaLog' = Append(osaLog, OsaCall(command, r.out, r.err))
                        /\ IF r.err
                           THEN /\ HaltWith("error attaching ISO")
                                /\ AttachReturn(ActionHalt)
                                /\ UNCHANGED stepAttach
                           ELSE IF HasMatch(r.out)
                           THEN /\ stepAttach' = [stepAttach EXCEPT !.diskUnmountCommands = cmds]
                                /\ IF loopIdx = Len(disksToMount)
                                   THEN /\ state' = Put(state, "disk_unmount_commands", cmds)
                                        /\ putLog' = Append(putLog, "disk_unmount_commands")
                                        /\ AttachReturn(ActionContinue)
                                   ELSE /\ loopIdx' = loopIdx + 1
                                        /\ UNCHANGED <<active, result, state, putLog,
                                                       disksToMount>>
                           ELSE /\ HaltWith("error extracting UUID from output")
                                /\ AttachReturn(ActionHalt)
                                /\ UNCHANGED stepAttach
    /\ UNCHANGED <<runnerVars, buildVars, versionLog, toolsPathLog, fetchLog, stepQemu, stepDownload>>

\* DetachCalls giving up at the first call that fails
DetachCallsStopOnError(cmds, order, errs) ==
    LET n == IF \E i \in 1..Len(order) : errs[order[i]]
             THEN Min({i \in 1..Len(order) : errs[order[i]]})
             ELSE Len(order)
    IN  [i \in 1..n |-> OsaCall(cmds[order[i]], <<>>, errs[order[i]])]

\* lines 206-211: one detach call per recorded command, in the map's iteration
\* order, whatever each call returns
DetachCalls(cmds, order, errs) ==
    [i \in 1..Len(order) |-> OsaCall(cmds[order[i]], <<>>, errs[order[i]])]

\* lines 197-213
AttachCleanup ==
    /\ active = Call("attach", "Cleanup")
    /\ LET cmds == stepAttach.diskUnmountCommands
       IN  IF Cardinality(DOMAIN cmds) = 0 \/ GetOk(state, "detached_isos")
           THEN UNCHANGED osaLog
           ELSE \E order \in Perms(DOMAIN cmds) : \E errs \in [DOMAIN cmds -> BOOLEAN] :
                  osaLog' = osaLog \o DetachCalls(cmds, order, errs)
    /\ active' = None
    /\ UNCHANGED <<runnerVars, buildVars, result, state, putLog, versionLog, toolsPathLog, fetchLog,
                   stepVars>>

\* A further call of Cleanup on the same StepAttachISOs instance, once the
\* runner's unwind is over
CleanupAgain ==
    /\ phase = "done"
    /\ active = None
    /\ "attach" \in Range(cleaned)
    /\ phase' = "again"
    /\ active' = Call("attach", "Cleanup")
    /\ cleaned' = Append(cleaned, "attach")
    /\ UNCHANGED <<steps, pos, upos, ran, result, state, putLog, driverVars, stepVars,
                   buildVars>>

\* The build's context is cancelled while the pipeline runs forward
Cancel ==
    /\ ~cancelled
    /\ phase = "forward"
    /\ cancelled' = TRUE
    /\ UNCHANGED <<runnerVars, active, result, state, putLog, driverVars, stepVars,
                   qemuConfig, prepareErrs>>

(***************************************************************************)
(* A later step of the build that detaches the ISOs itself and says so     *)
(* in the state bag (spec section 4.4, step 5)                             *)
(***************************************************************************)
DetachRun ==
    /\ active = Call("detach", "Run")
    /\ state' = Put(state, "detached_isos", TRUE)
    /\ putLog' = Append(putLog, "detached_isos")
    /\ result' = ActionContinue
    /\ active' = None
    /\ UNCHANGED <<runnerVars, buildVars, driverVars, stepVars>>

DetachCleanup ==
    /\ active = Call("detach", "Cleanup")
    /\ active' = None
    /\ UNCHANGED <<runnerVars, buildVars, result, state, putLog, driverVars, stepVars>>

(***************************************************************************)
(* The pipeline runner (spec section 4.1)                                  *)
(***************************************************************************)
\* Run the next step: the previous one, if any, returned continue
RunnerRun ==
    /\ phase = "forward"
    /\ active = None
    /\ result # ActionHalt
    /\ ~cancelled
    /\ pos <= Len(steps)
    /\ active' = Call(steps[pos], "Run")
    /\ ran' = Append(ran, steps[pos])
    /\ pos' = pos + 1
    /\ result' = NoAction
    /\ UNCHANGED <<steps, phase, upos, cleaned, state, putLog, driverVars, stepVars, buildVars>>

\* the unwind leaving out the step that halted
RunnerStopSkipsHalted ==
    /\ phase = "forward"
    /\ active = None
    /\ result = ActionHalt \/ pos > Len(steps) \/ cancelled
    /\ phase' = "unwind"
    /\ upos' = IF result = ActionHalt THEN Len(ran) - 1 ELSE Len(ran)
    /\ UNCHANGED <<steps, pos, ran, cleaned, active, result, state, putLog,
                   driverVars, stepVars, buildVars>>

\* A step halted, or the last step returned: stop forward progress and unwind
RunnerStop ==
    /\ phase = "forward"
    /\ active = None
    /\ result = ActionHalt \/ pos > Len(steps) \/ cancelled
    /\ phase' = "unwind"
    /\ upos' = Len(ran)
    /\ UNCHANGED <<steps, pos, ran, cleaned, active, result, state, putLog,
                   driverVars, stepVars, buildVars>>

\* Unwind: Cleanup of the latest step not yet cleaned up
RunnerCleanup ==
    /\ phase = "unwind"
    /\ active = None
    /\ upos >= 1
    /\ active' = Call(ran[upos], "Cleanup")
    /\ cleaned' = Append(cleaned, ran[upos])
    /\ upos' = upos - 1
    /\ UNCHANGED <<steps, phase, pos, ran, result, state, putLog, driverVars, stepVars, buildVars>>

RunnerDone ==
    /\ phase = "unwind"
    /\ active = None
    /\ upos = 0
    /\ phase' = "done"
    /\ UNCHANGED <<steps, pos, upos, ran, cleaned, active, result, state, putLog,
                   driverVars, stepVars, buildVars>>

Runner == RunnerRun \/ RunnerStop \/ RunnerCleanup \/ RunnerDone

(***************************************************************************)
(* Initial states                                                          *)
(***************************************************************************)
TokA == <<"-", "a">>
TokC == <<"-", "c">>
TokH == <<"h">>
TokSp == <<" ">>
TokSp2 == <<" ", " ">>

\* the argument groups the lists are drawn from
GroupSet == { <<TokA, TokH>>, <<TokC>>, <<TokH, TokA>>, <<TokA, TokA>>,
              <<>>, <<TokSp, TokSp2>> }

QemuArgsSet == {NilSlice} \cup {Slice(l) : l \in SeqsUpTo(GroupSet, MaxGroups)}

InitState == [driver |-> "driver", ui |-> "ui", vmId |-> VmId]

RelIso == <<"boot.iso">>
AbsCd == <<"/", "tmp", "/", "cd.iso">>
RelCd == <<"cd.iso">>
AbsTools == <<"/", "cache", "/", "tools.iso">>

Before(seq, a, b) == \E i, j \in 1..Len(seq) : i < j /\ seq[i] = a /\ seq[j] = b

Modes == {GuestAdditionsModeDisable, GuestAdditionsModeAttach, GuestAdditionsModeUpload}

\* The state bag a build starts the pipeline with: the keys earlier steps have
\* set for the steps that read them
WithKey(st, present, k, v) == IF present THEN Put(st, k, v) ELSE st

InitialBags(pipeline, attach, isoPaths, cdPaths) ==
    { WithKey(WithKey(WithKey(InitState,
          iso # <<>>, "iso_path", iso),
          cd # <<>>, "cd_path", cd),
          attach.GuestAdditionsMode # GuestAdditionsModeDisable
              /\ ~Before(pipeline, "download", "attach"),
          "guest_additions_path", AbsTools)
      : iso \in isoPaths, cd \in cdPaths }

DefaultQemu == [QemuArgs |-> Slice(<< <<TokA, TokH>>, <<TokC>> >>)]
DefaultDownload(mode) ==
    [GuestAdditionsMode |-> mode, GuestAdditionsURL |-> <<>>,
     GuestAdditionsSHA256 |-> <<>>, CtxData |-> [Version |-> <<>>]]
DefaultAttach(boot, mode) ==
    [AttachBootISO |-> boot, ISOInterface |-> <<"ide">>, GuestAdditionsMode |-> mode,
     GuestAdditionsInterface |-> <<"usb">>, diskUnmountCommands |-> EmptyMap]

InitCommon ==
    /\ phase = "forward"
    /\ pos = 1
    /\ upos = 0
    /\ ran = <<>>
    /\ cleaned = <<>>
    /\ active = None
    /\ result = NoAction
    /\ putLog = <<>>
    /\ osaLog = <<>>
    /\ versionLog = <<>>
    /\ toolsPathLog = <<>>
    /\ fetchLog = <<>>
    /\ disksToMount = <<>>
    /\ loopIdx = 0
    /\ cancelled = FALSE
    /\ prepareErrs = NotPrepared

\* StepConfigureQemuArgs alone, over the argument lists
InitQemu ==
    /\ InitCommon
    /\ steps = <<"qemu">>
    /\ stepQemu \in {[QemuArgs |-> a] : a \in QemuArgsSet}
    /\ qemuConfig = [QemuArgs |-> stepQemu.QemuArgs]
    /\ stepDownload = DefaultDownload(GuestAdditionsModeDisable)
    /\ stepAttach = DefaultAttach(FALSE, GuestAdditionsModeDisable)
    /\ state = InitState

NextQemu == Runner \/ QemuArgsRun \/ QemuArgsCleanup

SpecQemu == InitQemu /\ [][NextQemu]_vars

\* QemuConfig.Prepare alone, over the argument lists of a configuration
TokTab == <<"\t">>
TokEmpty == <<>>

ConfigGroupSet == GroupSet \cup { <<TokSp, TokA>>, <<TokTab>>, <<TokEmpty>> }

InitPrepare ==
    /\ phase = "forward"
    /\ pos = 1
    /\ upos = 0
    /\ ran = <<>>
    /\ cleaned = <<>>
    /\ active = None
    /\ result = NoAction
    /\ putLog = <<>>
    /\ osaLog = <<>>
    /\ versionLog = <<>>
    /\ toolsPathLog = <<>>
    /\ fetchLog = <<>>
    /\ disksToMount = <<>>
    /\ loopIdx = 0
    /\ cancelled = FALSE
    /\ prepareErrs = NotPrepared
    /\ qemuConfig \in
         {[QemuArgs |-> a] :
            a \in {NilSlice} \cup {Slice(l) : l \in SeqsUpTo(ConfigGroupSet, MaxGroups)}}
    /\ steps = <<"qemu">>
    /\ stepQemu = [QemuArgs |-> qemuConfig.QemuArgs]
    /\ stepDownload = DefaultDownload(GuestAdditionsModeDisable)
    /\ stepAttach = DefaultAttach(FALSE, GuestAdditionsModeDisable)
    /\ state = InitState

NextPrepare == Prepare

SpecPrepare == InitPrepare /\ [][NextPrepare]_vars

\* StepDownloadGuestAdditions alone, over its configuration
UrlTemplates ==
    { <<>>,
      <<"https://example.com/fixed.iso">>,
      <<"https://example.com/tools-", VersionAction, ".iso">>,
      <<VersionAction>>,
      <<"https://example.com/", BadAction>> }

Checksums == { <<>>, <<"c", "0", "f", "f", "e", "e">> }

InitDownload ==
    /\ InitCommon
    /\ steps = <<"download">>
    /\ stepQemu = DefaultQemu
    /\ qemuConfig = [QemuArgs |-> stepQemu.QemuArgs]
    /\ stepDownload \in
         { [GuestAdditionsMode |-> m, GuestAdditionsURL |-> u,
            GuestAdditionsSHA256 |-> c, CtxData |-> [Version |-> <<>>]]
           : m \in Modes, u \in UrlTemplates, c \in Checksums }
    /\ stepAttach = DefaultAttach(FALSE, GuestAdditionsModeDisable)
    /\ state = InitState

NextDownload == Runner \/ DownloadRun \/ DownloadCleanup

SpecDownload == InitDownload /\ [][NextDownload]_vars

\* StepAttachISOs, alone or followed by the step that detaches the ISOs
Interfaces == { <<"ide">>, <<"sata">> }

InitAttach ==
    /\ InitCommon
    /\ steps \in { <<"attach">>, <<"attach", "detach">> }
    /\ stepQemu = DefaultQemu
    /\ qemuConfig = [QemuArgs |-> stepQemu.QemuArgs]
    /\ stepDownload = DefaultDownload(GuestAdditionsModeDisable)
    /\ stepAttach \in
         { [AttachBootISO |-> b, ISOInterface |-> i, GuestAdditionsMode |-> m,
            GuestAdditionsInterface |-> g, diskUnmountCommands |-> EmptyMap]
           : b \in BOOLEAN, i \in Interfaces, m \in Modes, g \in {<<"usb">>, <<"sata">>} }
    /\ state \in InitialBags(steps, stepAttach, {LinkIso, RelIso}, {<<>>, AbsCd, RelCd})

NextAttach ==
    Runner \/ AttachBegin \/ AttachOne \/ AttachCleanup \/ DetachRun \/ DetachCleanup

SpecAttach == InitAttach /\ [][NextAttach]_vars

\* Each step alone over its full configuration
InitSteps == InitQemu \/ InitDownload \/ InitAttach

NextSteps ==
    \/ Runner
    \/ QemuArgsRun \/ QemuArgsCleanup
    \/ DownloadRun \/ DownloadCleanup
    \/ AttachBegin \/ AttachOne \/ AttachCleanup
    \/ DetachRun \/ DetachCleanup

SpecSteps == InitSteps /\ [][NextSteps]_vars

\* StepAttachISOs with a further Cleanup after the unwind
NextAttachTwice == NextAttach \/ CleanupAgain

SpecAttachTwice == InitAttach /\ [][NextAttachTwice]_vars

\* StepAttachISOs in a build that may be cancelled
NextCancel == NextAttach \/ Cancel

SpecCancel == InitAttach /\ [][NextCancel]_vars

\* Whole pipelines: the steps in every order
StepKinds == {"qemu", "download", "attach", "detach"}

Init ==
    /\ InitCommon
    /\ steps \in DistinctSeqs(StepKinds, MaxSteps)
    /\ stepQemu \in {[QemuArgs |-> NilSlice], DefaultQemu}
    /\ qemuConfig = [QemuArgs |-> stepQemu.QemuArgs]
    /\ \E m \in Modes :
         /\ stepDownload = DefaultDownload(m)
         /\ stepAttach = DefaultAttach(TRUE, m)
    /\ state \in InitialBags(steps, stepAttach, {LinkIso}, {AbsCd})

Next ==
    \/ Runner
    \/ QemuArgsRun \/ QemuArgsCleanup
    \/ DownloadRun \/ DownloadCleanup
    \/ AttachBegin \/ AttachOne \/ AttachCleanup
    \/ DetachRun \/ DetachCleanup

Spec == Init /\ [][Next]_vars

(***************************************************************************)
(* Properties of StepAttachISOs                                            *)
(***************************************************************************)
Categories == {"boot_iso", "cd_files", "guest_additions"}

Rank(c) == CASE c = "boot_iso" -> 1 [] c = "cd_files" -> 2 [] c = "guest_additions" -> 3

PathKey(c) ==
    CASE c = "boot_iso" -> "iso_path"
      [] c = "cd_files" -> "cd_path"
      [] c = "guest_additions" -> "guest_additions_path"

\* a medium applies: the build has a boot image, an earlier step prepared
\* cd_files, the guest additions are to be attached
Applicable(c) ==
    CASE c = "boot_iso" -> stepAttach.AttachBootISO
      [] c = "cd_files" -> GetOk(state, "cd_path")
      [] c = "guest_additions" -> stepAttach.GuestAdditionsMode = "attach"

\* the file an attach command must name for the path p of the state bag
Canonical(p) == EvalSymlinks(IF IsAbs(p) THEN p ELSE Abs(p))

IsAttach(e) == e.cmd[1] = <<"attach_iso.applescript">>
IsDetach(e) == e.cmd[1] = <<"remove_drive.applescript">>

\* the attach command e is for the medium of category c
IsFor(e, c) == GetOk(state, PathKey(c)) /\ e.cmd[6] = Canonical(state[PathKey(c)])

AttachCalls == SelectSeq(osaLog, IsAttach)
DetachCallsMade == SelectSeq(osaLog, IsDetach)

\* C1: the attach commands issued so far are each for an applicable medium, and
\* each is for a medium that comes later in the order boot image, cd_files,
\* guest additions than every attach command before it (so at most one per
\* category), whatever the driver returned.
AttachOrder ==
    \A i \in 1..Len(AttachCalls) :
      \E c \in Categories :
        /\ IsFor(AttachCalls[i], c)
        /\ Applicable(c)
        /\ \A j \in 1..(i - 1) :
             \E d \in Categories : IsFor(AttachCalls[j], d) /\ Rank(d) < Rank(c)

\* all three media were attached
AttachOrderWitness ==
    /\ Len(AttachCalls) = 3
    /\ \A i \in 1..3 : ~AttachCalls[i].err

\* the attach step is over: Run returned and the runner's Cleanup of it too
AttachCleanedUp == "attach" \in Range(cleaned) /\ active = None

\* C2: once Run and then Cleanup of the attach step are over with no
\* detached_isos marker in the state bag, every drive an attach command created
\* without error has had a remove_drive command issued for its identifier.
NoOrphanedAttachment ==
    (AttachCleanedUp /\ ~GetOk(state, "detached_isos")) =>
        \A k \in 1..Len(AttachCalls) :
            ~AttachCalls[k].err =>
                \E j \in 1..Len(DetachCallsMade) : DetachCallsMade[j].cmd[3] = DriveUuid(k)

\* the driver calls an action added to the log
NewCalls == SubSeq(osaLog', Len(osaLog) + 1, Len(osaLog'))

\* C3: Cleanup of the attach step makes no driver call when the detached_isos
\* marker is in the state bag or no reversal command is recorded; otherwise it
\* makes exactly one call for each recorded command, whether or not earlier
\* calls of the pass failed; and it writes nothing into the state bag.
CleanupDetachesEach ==
    [][ active = Call("attach", "Cleanup") =>
          LET cmds == stepAttach.diskUnmountCommands
          IN  /\ state' = state
              /\ putLog' = putLog
              /\ SubSeq(osaLog', 1, Len(osaLog)) = osaLog
              /\ IF GetOk(state, "detached_isos") \/ DOMAIN cmds = {}
                 THEN osaLog' = osaLog
                 ELSE /\ Len(NewCalls) = Cardinality(DOMAIN cmds)
                      /\ \A c \in DOMAIN cmds :
                           Cardinality({i \in 1..Len(NewCalls) : NewCalls[i].cmd = cmds[c]}) = 1
      ]_vars

\* a detach call failed and another detach call followed it
CleanupDetachesEachWitness ==
    \E i \in 1..Len(DetachCallsMade) :
        DetachCallsMade[i].err /\ i < Len(DetachCallsMade)

\* a token of the canonical UUID length of hexadecimal digits and dashes
UuidShapedAt(out, i) ==
    /\ i + 35 <= Len(out)
    /\ \A j \in i..(i + 35) : out[j] \in HexDash

NoUuidIn(out) == \A i \in 1..Len(out) : ~UuidShapedAt(out, i)

\* C4: an attach command that returned no error and whose output holds no
\* UUID-shaped token is the last attach command of the Run; the Run has then
\* returned halt with an error in the state bag, and no reversal command is
\* recorded for the medium of that command.
NoUuidHalts ==
    \A i \in 1..Len(AttachCalls) :
        (~AttachCalls[i].err /\ NoUuidIn(AttachCalls[i].out)) =>
            /\ i = Len(AttachCalls)
            /\ result = ActionHalt
            /\ active # Call("attach", "Run")
            /\ GetOk(state, "error")
            /\ \A c \in Categories :
                 IsFor(AttachCalls[i], c) => c \notin DOMAIN stepAttach.diskUnmountCommands

\* the second attach printed no identifier, after a first that was recorded
NoUuidHaltsWitness ==
    /\ Len(AttachCalls) = 2
    /\ ~AttachCalls[2].err
    /\ NoUuidIn(AttachCalls[2].out)
    /\ DOMAIN stepAttach.diskUnmountCommands # {}

(***************************************************************************)
(* Properties of the runner                                                *)
(***************************************************************************)
\* C5: Run is invoked on the steps in pipeline order; Cleanup is invoked only
\* once forward progress has stopped, on the steps whose Run was invoked, latest
\* first, and when the unwind is over on every one of them, the step that
\* halted included; a step whose Run was never invoked is never cleaned up.
CleanupReverseOrder ==
    /\ Len(ran) <= Len(steps)
    /\ ran = SubSeq(steps, 1, Len(ran))
    /\ Len(cleaned) <= Len(ran)
    /\ \A i \in 1..Len(cleaned) : cleaned[i] = ran[Len(ran) + 1 - i]
    /\ cleaned # <<>> => phase # "forward"
    /\ phase = "done" => Len(cleaned) = Len(ran)

\* the second of three steps halted and the unwind is over
CleanupReverseOrderWitness ==
    /\ phase = "done"
    /\ result = ActionHalt
    /\ Len(steps) = 3
    /\ Len(ran) = 2
    /\ Len(cleaned) = 2

(***************************************************************************)
(* Properties of StepConfigureQemuArgs                                     *)
(***************************************************************************)
QemuRunReturned == "qemu" \in Range(ran) /\ active # Call("qemu", "Run")

\* C6: with a nil or zero-length argument list, once Run has returned there is
\* no driver call, the result is continue, and neither error nor userQemuArgs
\* is in the state bag.
EmptyArgsNoCall ==
    (QemuRunReturned /\ Len(stepQemu.QemuArgs.elems) = 0) =>
        /\ osaLog = <<>>
        /\ result = ActionContinue
        /\ ~GetOk(state, "error")
        /\ ~GetOk(state, "userQemuArgs")

\* Run returned for a zero-length list that is not nil
EmptyArgsNoCallWitness ==
    /\ QemuRunReturned
    /\ ~stepQemu.QemuArgs.isNil
    /\ Len(stepQemu.QemuArgs.elems) = 0

\* where the k-th token of group g starts in the joined string, less one
RECURSIVE Offset(_, _)
Offset(g, k) == IF k = 1 THEN 0 ELSE Offset(g, k - 1) + Len(g[k - 1]) + 1

\* j is the tokens of g in order, one space between neighbours
SpaceJoined(j, g) ==
    IF Len(g) = 0 THEN j = <<>>
    ELSE /\ Len(j) = Offset(g, Len(g)) + Len(g[Len(g)])
         /\ \A k \in 1..Len(g) :
              /\ \A c \in 1..Len(g[k]) : j[Offset(g, k) + c] = g[k][c]
              /\ k < Len(g) => j[Offset(g, k) + Len(g[k]) + 1] = " "

\* C7: with a non-empty argument list, once Run has returned there is exactly
\* one driver call: the command name, the VM identifier of the state bag,
\* --args, and then for each group in order its tokens joined by one space;
\* when the call succeeded, userQemuArgs holds those joined strings.
OneCallJoinedArgs ==
    (QemuRunReturned /\ Len(stepQemu.QemuArgs.elems) > 0) =>
        LET groups == stepQemu.QemuArgs.elems
            cmd == osaLog[1].cmd
        IN  /\ Len(osaLog) = 1
            /\ Len(cmd) = 3 + Len(groups)
            /\ cmd[1] = <<"add_qemu_additional_args.applescript">>
            /\ cmd[2] = state["vmId"]
            /\ cmd[3] = <<"--args">>
            /\ \A i \in 1..Len(groups) : SpaceJoined(cmd[3 + i], groups[i])
            /\ ~osaLog[1].err =>
                 /\ GetOk(state, "userQemuArgs")
                 /\ state["userQemuArgs"] = SubSeq(cmd, 4, Len(cmd))

\* two groups, the second a repeated token, configured with success
OneCallJoinedArgsWitness ==
    /\ QemuRunReturned
    /\ stepQemu.QemuArgs.elems = << <<TokA, TokH>>, <<TokA, TokA>> >>
    /\ Len(osaLog) = 1
    /\ ~osaLog[1].err
    /\ state["userQemuArgs"] = << <<"-", "a", " ", "h">>, <<"-", "a", " ", "-", "a">> >>

\* C8: when the driver call of Run failed, the result is halt, an error is in
\* the state bag and userQemuArgs is not.
DriverErrorHalts ==
    (Len(osaLog) > 0 /\ osaLog[1].err) =>
        /\ result = ActionHalt
        /\ GetOk(state, "error")
        /\ ~GetOk(state, "userQemuArgs")

DriverErrorHaltsWitness ==
    /\ QemuRunReturned
    /\ Len(osaLog) = 1
    /\ osaLog[1].err

(***************************************************************************)
(* Properties of StepDownloadGuestAdditions                                *)
(***************************************************************************)
DownloadRunReturned == "download" \in Range(ran) /\ active # Call("download", "Run")

\* C9: in mode disabled the driver is never asked for its version or its tools
\* path, nothing is fetched, neither error nor guest_additions_path is written,
\* and once Run has returned the result is continue.
DisabledDoesNothing ==
    stepDownload.GuestAdditionsMode = "disabled" =>
        /\ versionLog = <<>>
        /\ toolsPathLog = <<>>
        /\ fetchLog = <<>>
        /\ putLog = <<>>
        /\ ~GetOk(state, "error")
        /\ ~GetOk(state, "guest_additions_path")
        /\ DownloadRunReturned => result = ActionContinue

DisabledDoesNothingWitness ==
    /\ stepDownload.GuestAdditionsMode = "disabled"
    /\ DownloadRunReturned

\* C10: once the driver has reported its version, the version the URL template
\* is rendered with is the remap table's value for a reported version the table
\* has, 0.229.2 for 4.6.4, and the reported version otherwise; a URL rendered
\* from a template that prints the version holds that version.
RemappedVersionRendered ==
    (Len(versionLog) > 0 /\ ~versionLog[1].err) =>
        LET reported == versionLog[1].out
            used == IF reported = <<"4.6.4">> THEN <<"0.229.2">> ELSE reported
            tpl == stepDownload.GuestAdditionsURL
        IN  /\ reported \in DOMAIN additionsVersionMap => used = additionsVersionMap[reported]
            /\ stepDownload.CtxData.Version = used
            /\ (Len(fetchLog) > 0 /\ Len(tpl) = 3 /\ tpl[2] = VersionAction) =>
                   fetchLog[1].Url = << <<tpl[1]>> \o used \o <<tpl[3]>> >>

\* 4.6.4 was reported and the fetched URL names 0.229.2
RemappedVersionRenderedWitness ==
    /\ Len(versionLog) > 0
    /\ versionLog[1] = [out |-> <<"4.6.4">>, err |-> FALSE]
    /\ Len(fetchLog) > 0
    /\ fetchLog[1].Url = << <<"https://example.com/tools-", "0.229.2", ".iso">> >>

(***************************************************************************)
(* Properties of QemuConfig.Prepare                                        *)
(***************************************************************************)
ConfigGroups == qemuConfig.QemuArgs.elems

\* a group with no token, or with nothing but white space in its tokens
BadGroup(args) ==
    \/ Len(args) = 0
    \/ \A t \in 1..Len(args) : \A k \in 1..Len(args[t]) : args[t][k] \in WhiteSpace

ErrorsFor(i) == {k \in 1..Len(prepareErrs.errs) : prepareErrs.errs[k].index = i - 1}

\* C12: Prepare returns exactly one error for each argument group that is empty
\* or whose tokens hold only white space, and no error for any other group, so
\* none at all for a nil or empty list or a list of groups that each hold a
\* token with a character that is not white space.
PrepareOneErrorPerBadGroup ==
    prepareErrs.called =>
        /\ \A i \in 1..Len(ConfigGroups) :
              Cardinality(ErrorsFor(i)) = IF BadGroup(ConfigGroups[i]) THEN 1 ELSE 0
        /\ Len(prepareErrs.errs)
              = Cardinality({i \in 1..Len(ConfigGroups) : BadGroup(ConfigGroups[i])})

PrepareOneErrorPerBadGroupWitness ==
    /\ prepareErrs.called
    /\ Len(ConfigGroups) = 2
    /\ Len(ConfigGroups[1]) = 0
    /\ Len(ConfigGroups[2]) > 0 /\ BadGroup(ConfigGroups[2])
    /\ Len(prepareErrs.errs) = 2

(***************************************************************************)
(* Properties of StepDownloadGuestAdditions: checksum and URL resolution   *)
(***************************************************************************)
\* the URL of the fetch is the path the driver's GuestToolsIsoPath returned
UrlFromDriver == Len(toolsPathLog) > 0 /\ ~toolsPathLog[Len(toolsPathLog)].err

OperatorSha == stepDownload.GuestAdditionsSHA256

\* C11: the checksum handed to the fetch is the operator's checksum behind the
\* tag sha256: when the URL is not the driver's default path and the operator
\* gave a checksum; in every other case it is empty, so verification is
\* skipped, also when a checksum came with a URL the driver resolved.
ChecksumPolicy ==
    \A k \in 1..Len(fetchLog) :
        fetchLog[k].Checksum =
            IF ~UrlFromDriver /\ OperatorSha # <<>>
            THEN <<"sha256", ":">> \o OperatorSha
            ELSE <<>>

ChecksumPolicyWitness ==
    /\ Len(fetchLog) = 1
    /\ UrlFromDriver
    /\ OperatorSha # <<>>
    /\ fetchLog[1].Checksum = <<>>

VersionQueried == Len(versionLog) > 0 /\ ~versionLog[1].err

\* C13: the tools path is asked of the driver only after a successful version
\* query and an operator URL that rendered to nothing; when that query
\* fails the URL fetched is the default on getutm.app; when the driver answers
\* with an empty path nothing is fetched and the step halts with the error
\* that asks for guest_additions_url; every fetch follows a successful version
\* query and has a URL that is not empty.
UrlResolutionOrder ==
    /\ Len(toolsPathLog) > 0 =>
          /\ VersionQueried
          /\ ~RenderFails(stepDownload.GuestAdditionsURL)
          /\ Render(stepDownload.GuestAdditionsURL, stepDownload.CtxData) = <<>>
          /\ Len(toolsPathLog) = 1
    /\ (Len(toolsPathLog) > 0 /\ toolsPathLog[1].err) =>
          /\ Len(fetchLog) = 1
          /\ fetchLog[1].Url =
                << <<"https://getutm.app/downloads/", "utm-guest-tools-", "latest", ".iso">> >>
    /\ (Len(toolsPathLog) > 0 /\ ~toolsPathLog[1].err /\ toolsPathLog[1].out = <<>>) =>
          /\ fetchLog = <<>>
          /\ result = ActionHalt
          /\ GetOk(state, "error")
          /\ state["error"].error
                = "could not detect guest additions URL. Please specify guest_additions_url manually"
    /\ \A k \in 1..Len(fetchLog) :
          /\ VersionQueried
          /\ \A u \in 1..Len(fetchLog[k].Url) : fetchLog[k].Url[u] # <<>>
          /\ Len(fetchLog[k].Url) = 1

UrlResolutionOrderWitness ==
    /\ Len(toolsPathLog) = 1
    /\ ~toolsPathLog[1].err
    /\ toolsPathLog[1].out = <<>>
    /\ result = ActionHalt
    /\ fetchLog = <<>>

(***************************************************************************)
(* Properties of StepAttachISOs: the published table and the empty list    *)
(***************************************************************************)
\* the keys an action wrote into the state bag
NewPuts == SubSeq(putLog', Len(putLog) + 1, Len(putLog'))

PutsOf(key) == Cardinality({i \in 1..Len(NewPuts) : NewPuts[i] = key})

\* C14: a step of the attach Run writes disk_unmount_commands exactly when it
\* returns continue and some medium was applicable; the table written then
\* has one entry for each applicable medium and no other, the remove_drive
\* command for the drive of the attach call made for that medium without
\* error; so a Run that halts or has not returned writes no table.
UnmountTablePublished ==
    [][ active = Call("attach", "Run") =>
          LET wrote == PutsOf("disk_unmount_commands") > 0
              calls == SelectSeq(osaLog', IsAttach)
          IN  /\ wrote <=> /\ active' = None
                           /\ result' = ActionContinue
                           /\ \E c \in Categories : Applicable(c)
              /\ ~wrote =>
                    /\ GetOk(state', "disk_unmount_commands")
                          = GetOk(state, "disk_unmount_commands")
                    /\ GetOk(state, "disk_unmount_commands") =>
                          state'["disk_unmount_commands"] = state["disk_unmount_commands"]
              /\ wrote =>
                    /\ PutsOf("disk_unmount_commands") = 1
                    /\ DOMAIN state'["disk_unmount_commands"]
                          = {c \in Categories : Applicable(c)}
                    /\ Len(calls) = Cardinality({c \in Categories : Applicable(c)})
                    /\ \A k \in 1..Len(calls) : ~calls[k].err
                    /\ \A c \in DOMAIN state'["disk_unmount_commands"] :
                          \E k \in 1..Len(calls) :
                            /\ IsFor(calls[k], c)
                            /\ state'["disk_unmount_commands"][c]
                                 = << <<"remove_drive.applescript">>, state["vmId"], DriveUuid(k) >>
      ]_vars

\* the table of three media is in the state bag
UnmountTablePublishedWitness ==
    /\ GetOk(state, "disk_unmount_commands")
    /\ Cardinality(DOMAIN state["disk_unmount_commands"]) = 3
    /\ result = ActionContinue

NoMediumApplicable ==
    /\ ~stepAttach.AttachBootISO
    /\ ~GetOk(state, "cd_path")
    /\ stepAttach.GuestAdditionsMode \in {"upload", "disabled"}

\* the last Run the runner invoked is the attach step's, and it has returned
AttachRunReturned ==
    /\ ran # <<>>
    /\ ran[Len(ran)] = "attach"
    /\ active # Call("attach", "Run")

\* C15: with no boot image to attach, no cd_path in the state bag and the
\* guest additions mode upload or disabled, the attach Run returns continue,
\* no driver call is ever made, by Run or by the Cleanup after it, and no
\* error is written.
EmptyListNoDriver ==
    NoMediumApplicable =>
        /\ osaLog = <<>>
        /\ ~GetOk(state, "error")
        /\ ~GetOk(state, "disk_unmount_commands")
        /\ AttachRunReturned => result = ActionContinue

\* Run and Cleanup of the attach step are over, with upload mode
EmptyListNoDriverWitness ==
    /\ NoMediumApplicable
    /\ stepAttach.GuestAdditionsMode = "upload"
    /\ phase = "done"
    /\ "attach" \in Range(cleaned)
    /\ result = ActionContinue
    /\ osaLog = <<>>

(***************************************************************************)
(* Properties of the Cleanup of the argument and download steps            *)
(***************************************************************************)
\* C19: Cleanup of the argument step and of the download step makes no driver
\* call and leaves the state bag as it is; and once forward progress has
\* stopped no command of the argument script is issued and the userQemuArgs
\* value in the state bag stays, so the injected arguments outlive the unwind.
QemuArgsPersist ==
    [][ /\ active \in {Call("qemu", "Cleanup"), Call("download", "Cleanup")} =>
              /\ state' = state
              /\ putLog' = putLog
              /\ osaLog' = osaLog
              /\ versionLog' = versionLog
              /\ toolsPathLog' = toolsPathLog
              /\ fetchLog' = fetchLog
        /\ phase # "forward" =>
              /\ \A k \in 1..Len(NewCalls) :
                    NewCalls[k].cmd[1] # <<"add_qemu_additional_args.applescript">>
              /\ GetOk(state, "userQemuArgs") =>
                    /\ GetOk(state', "userQemuArgs")
                    /\ state'["userQemuArgs"] = state["userQemuArgs"]
      ]_vars

\* the arguments were injected, a later step halted, and the unwind is over
QemuArgsPersistWitness ==
    /\ phase = "done"
    /\ result = ActionHalt
    /\ GetOk(state, "userQemuArgs")
    /\ "qemu" \in Range(cleaned)
    /\ "download" \in Range(cleaned)
    /\ ran[Len(ran)] # "qemu"

(***************************************************************************)
(* Halt and error                                                          *)
(***************************************************************************)
\* the Run of the step named is returning in this step
Returns(s) == active = Call(s, "Run") /\ active' = None

\* C16: in a Run of the argument step, of the download step up to the hand-over
\* to the fetch, and of the attach step, the step of the Run that returns halt
\* writes error into the state bag exactly once, and no other step of a Run
\* writes error: a Run that returns continue, or has not returned, wrote none.
HaltWritesOneError ==
    [][ \A s \in {"qemu", "download", "attach"} :
          (active = Call(s, "Run") /\ fetchLog' = fetchLog) =>
              /\ PutsOf("error") = IF Returns(s) /\ result' = ActionHalt THEN 1 ELSE 0
              /\ (Returns(s) /\ result' = ActionHalt) => GetOk(state', "error")
              /\ Returns(s) => result' \in {ActionHalt, ActionContinue}
              /\ ~GetOk(state, "error")
      ]_vars

\* the attach Run halted on an interface name the driver does not know
HaltWritesOneErrorWitness ==
    /\ ran = <<"attach">>
    /\ result = ActionHalt
    /\ osaLog = <<>>
    /\ GetOk(state, "error")
    /\ state["error"] = Err("unknown controller")
    /\ Cardinality({i \in 1..Len(putLog) : putLog[i] = "error"}) = 1

(***************************************************************************)
(* A second Cleanup, and cancellation                                      *)
(***************************************************************************)
\* C17: a further Cleanup of the attach step, after the Cleanup of the unwind,
\* issues no driver command.
SecondCleanupDetachesNothing ==
    [][ (phase = "again" /\ active = Call("attach", "Cleanup")) => osaLog' = osaLog ]_vars

\* C18: once the build is cancelled, a Run of the attach step that is in its
\* loop issues no further driver command, and when it returns it returns halt.
CancelHaltsAttach ==
    [][ (cancelled /\ active = Call("attach", "Run") /\ loopIdx >= 1) =>
            /\ osaLog' = osaLog
            /\ active' = None => result' = ActionHalt
      ]_vars
====
